---------------------------- MODULE Spec2Model ----------------------------
(***************************************************************************)
(* FumoRfetch (src/src/main.rs): the probes that gather host facts from    *)
(* files, environment variables and helper commands, the report they are   *)
(* assembled into, and the two-column, ANSI-aware rendering of the report  *)
(* beside the logo.                                                        *)
(*                                                                         *)
(* A Rust String is a sequence of characters, each character a one-letter  *)
(* TLA+ string; ESC stands for U+001B.  An Option is a sequence of length  *)
(* at most one.  A probe is an operator from what it reads to a record     *)
(* [val, log, abort]: its value, the commands it spawned in order, and     *)
(* whether it panicked.                                                    *)
(***************************************************************************)
EXTENDS Integers, Sequences, FiniteSets

VARIABLES pc, build, host, inp, res, info, out, cmds, abortAt, gpuCalls

vars == <<pc, build, host, inp, res, info, out, cmds, abortAt, gpuCalls>>

(***************************************************************************)
(* Characters and Rust's str helpers                                       *)
(***************************************************************************)
ESC == "ESC"
NL == "\n"
TAB == "\t"
CR == "\r"

None == <<>>
Some(v) == <<v>>

UpperChars == <<"A","B","C","D","E","F","G","H","I","J","K","L","M","N","O","P","Q","R","S","T","U","V","W","X","Y","Z">>
LowerChars == <<"a","b","c","d","e","f","g","h","i","j","k","l","m","n","o","p","q","r","s","t","u","v","w","x","y","z">>

ToLowerChar(c) ==
    IF \E i \in 1..Len(UpperChars) : UpperChars[i] = c
    THEN LowerChars[CHOOSE i \in 1..Len(UpperChars) : UpperChars[i] = c]
    ELSE c

\* str::to_lowercase
ToLowercase(s) == [i \in 1..Len(s) |-> ToLowerChar(s[i])]

\* char::is_whitespace, on the characters the inputs are made of
IsWhitespace(c) == c \in {" ", TAB, NL, CR}

\* pat occurs in s at index i (from 1)
MatchesAt(s, pat, i) ==
    i + Len(pat) - 1 <= Len(s) /\ \A k \in 1..Len(pat) : s[i + k - 1] = pat[k]

RECURSIVE FindFrom(_, _, _)
FindFrom(s, pat, i) ==
    IF i + Len(pat) - 1 > Len(s) THEN 0
    ELSE IF MatchesAt(s, pat, i) THEN i
    ELSE FindFrom(s, pat, i + 1)

\* str::find: the first index (from 1) at which pat occurs, 0 when none
Find(s, pat) == FindFrom(s, pat, 1)

\* str::contains
Contains(s, pat) == \E i \in 1..(Len(s) - Len(pat) + 1) : MatchesAt(s, pat, i)

\* str::starts_with
StartsWith(s, pat) == MatchesAt(s, pat, 1)

RECURSIVE Split(_, _)
\* the pieces of s, whose first occurrence of c is at index i (0: none)
SplitAt(s, c, i) ==
    IF i = 0 THEN <<s>>
    ELSE <<SubSeq(s, 1, i - 1)>> \o Split(SubSeq(s, i + 1, Len(s)), c)

\* str::split(c), collected
Split(s, c) == SplitAt(s, c, Find(s, <<c>>))

\* Iterator::nth(k), k counted from 0
Nth(segs, k) == IF Len(segs) > k THEN Some(segs[k + 1]) ELSE None

RECURSIVE TrimStart(_)
TrimStart(s) ==
    IF s # <<>> /\ IsWhitespace(Head(s)) THEN TrimStart(Tail(s)) ELSE s

RECURSIVE TrimEnd(_)
TrimEnd(s) ==
    IF s # <<>> /\ IsWhitespace(s[Len(s)]) THEN TrimEnd(SubSeq(s, 1, Len(s) - 1)) ELSE s

\* str::trim
Trim(s) == TrimEnd(TrimStart(s))

\* one line of str::lines: a trailing "\r" is dropped with the "\n"
StripCR(s) == IF s # <<>> /\ s[Len(s)] = CR THEN SubSeq(s, 1, Len(s) - 1) ELSE s

\* the lines of a text given its pieces between "\n": no line for what
\* follows a final "\n"; the "\r" before a "\n" goes with it
LinesOf(segs) ==
    [i \in 1..(IF segs[Len(segs)] = <<>> THEN Len(segs) - 1 ELSE Len(segs)) |->
        IF i < Len(segs) THEN StripCR(segs[i]) ELSE segs[i]]

\* str::lines, collected
Lines(s) == LinesOf(Split(s, NL))

\* str::split_whitespace().next()
FirstToken(s) ==
    LET t == TrimStart(s)
        ends == {i \in 1..Len(t) : IsWhitespace(t[i])}
    IN IF t = <<>> THEN None
       ELSE IF ends = {} THEN Some(t)
       ELSE Some(SubSeq(t, 1, (CHOOSE i \in ends : \A j \in ends : i <= j) - 1))

\* str::split_whitespace().nth(1)
SecondToken(s) ==
    LET t == TrimStart(s)
        ends == {i \in 1..Len(t) : IsWhitespace(t[i])}
    IN IF t = <<>> \/ ends = {} THEN None
       ELSE FirstToken(SubSeq(t, CHOOSE i \in ends : \A j \in ends : i <= j, Len(t)))

Max(a, b) == IF a >= b THEN a ELSE b

\* all sequences over S of length at most n
SeqsUpTo(S, n) == UNION {[1..k -> S] : k \in 0..n}

(***************************************************************************)
(* ANSI-aware layout: visible_length and the row loop of display_info      *)
(***************************************************************************)
RECURSIVE VisibleLoop(_, _, _, _)
VisibleLoop(s, i, in_escape, visible_len) ==
    IF i > Len(s) THEN visible_len
    ELSE IF in_escape
         THEN VisibleLoop(s, i + 1, s[i] # "m", visible_len)
         ELSE IF s[i] = ESC
              THEN VisibleLoop(s, i + 1, TRUE, visible_len)
              ELSE VisibleLoop(s, i + 1, FALSE, visible_len + 1)

visible_length_skip_esc_only(s) == Cardinality({i \in 1..Len(s) : s[i] # ESC})

visible_length(s) == VisibleLoop(s, 1, FALSE, 0)

\* logo.iter().map(visible_length).max().unwrap_or(0)
max_logo_len_raw(logo) ==
    LET ws == {Len(logo[i]) : i \in 1..Len(logo)}
    IN IF ws = {} THEN 0 ELSE CHOOSE w \in ws : \A v \in ws : v <= w

max_logo_len(logo) ==
    LET ws == {visible_length(logo[i]) : i \in 1..Len(logo)}
    IN IF ws = {} THEN 0 ELSE CHOOSE w \in ws : \A v \in ws : v <= w

padding == 4

\* max_logo_len - visible_logo_len + padding in usize, then " ".repeat(it):
\* None when the subtraction panics (overflow checks on) or, wrapped, the
\* repeat count cannot be allocated.
SpacesCount(maxw, vis, bld) ==
    IF vis <= maxw THEN Some(maxw - vis + padding)
    ELSE IF bld = "debug" THEN None
    ELSE IF maxw - vis + padding >= 0 THEN Some(maxw - vis + padding)
    ELSE None

\* the row count of the loop: logo.len().max(info_lines.len())
RowCount(logo, info_lines) == Max(Len(logo), Len(info_lines))

\* what println!("{}{}{}", logo_line, spaces, info_line) prints, None when
\* computing the spaces panicked
RowOf(logo_line, spaces, info_line) ==
    IF spaces = None THEN None
    ELSE Some([logo |-> logo_line, spaces |-> spaces[1], info |-> info_line])

\* one iteration of the loop, i counted from 0 as in the code, maxw the
\* value of max_logo_len
Row(logo, info_lines, i, maxw, bld) ==
    IF i < Len(logo)
    THEN RowOf(logo[i + 1], SpacesCount(maxw, visible_length(logo[i + 1]), bld),
               IF i < Len(info_lines) THEN info_lines[i + 1] ELSE <<>>)
    ELSE RowOf(<<>>, SpacesCount(maxw, visible_length(<<>>), bld),
               IF i < Len(info_lines) THEN info_lines[i + 1] ELSE <<>>)

RECURSIVE RowsFrom(_, _, _, _, _)
\* the rows printed from iteration i on, ending at the first panic
RowsFrom(logo, info_lines, i, maxw, bld) ==
    IF i >= RowCount(logo, info_lines) THEN [rows |-> <<>>, abort |-> FALSE]
    ELSE LET r == Row(logo, info_lines, i, maxw, bld)
         IN IF r = None THEN [rows |-> <<>>, abort |-> TRUE]
            ELSE LET rest == RowsFrom(logo, info_lines, i + 1, maxw, bld)
                 IN [rows |-> <<r[1]>> \o rest.rows, abort |-> rest.abort]

\* lines 397 to 410: max_logo_len, then the loop
Layout(logo, info_lines, bld) == RowsFrom(logo, info_lines, 0, max_logo_len(logo), bld)


(***************************************************************************)
(* States outside a run of the whole program: one operation applied to an  *)
(* input, pc going from "call" to "ret".                                   *)
(***************************************************************************)
NoInfo == [hostname |-> <<>>]

Idle(input) ==
    /\ pc = "call"
    /\ host = <<>>
    /\ inp = input
    /\ res = <<>>
    /\ info = NoInfo
    /\ out = <<>>
    /\ cmds = <<>>
    /\ abortAt = "none"
    /\ gpuCalls = <<>>

Return(result) ==
    /\ pc = "call"
    /\ pc' = "ret"
    /\ res' = result
    /\ UNCHANGED <<build, host, inp, info, out, cmds, abortAt, gpuCalls>>

Builds == {"debug", "release"}

(***************************************************************************)
(* visible_length applied to a, to b and to a ++ b                         *)
(***************************************************************************)
MaxStrLen == 4
MaxTailLen == 2
VisChars == {ESC, "m", "[", "x"}

InitVisible ==
    /\ build \in Builds
    /\ \E a \in SeqsUpTo(VisChars, MaxStrLen), b \in SeqsUpTo(VisChars, MaxTailLen) :
          Idle([a |-> a, b |-> b])

VisibleLength ==
    Return([a |-> visible_length(inp.a),
            b |-> visible_length(inp.b),
            ab |-> visible_length(inp.a \o inp.b)])

SpecVisible == InitVisible /\ [][VisibleLength]_vars

\* position i of s lies inside an escape sequence: an ESC at or before i with
\* no "m" strictly between it and i
InEscape(s, i) ==
    \E j \in 1..i : s[j] = ESC /\ \A k \in (j + 1)..(i - 1) : s[k] # "m"

OutsideEscapes(s) == Cardinality({i \in 1..Len(s) : ~InEscape(s, i)})

HasEsc(s) == \E i \in 1..Len(s) : s[i] = ESC

\* s ends inside an escape sequence that no "m" closes
EndsInEscape(s) ==
    \E j \in 1..Len(s) : s[j] = ESC /\ \A k \in (j + 1)..Len(s) : s[k] # "m"

ExampleOS == <<ESC,"[","1",";","3","2","m","O","S",":",ESC,"[","0","m">>
ExamplePlain == <<"p","l","a","i","n">>

\* C9: visible_length(s) is the number of characters of s outside every
\* escape sequence (ESC up to the next "m", or to the end of s); it is at most
\* the length of s, with equality exactly when s has no ESC; the two examples
\* give 3 and 5; and it is additive over a ++ b when a does not end inside an
\* unterminated escape sequence.
C9_VisibleLength ==
    pc = "ret" =>
        /\ res.a = OutsideEscapes(inp.a)
        /\ res.ab = OutsideEscapes(inp.a \o inp.b)
        /\ res.a <= Len(inp.a)
        /\ (res.a = Len(inp.a)) <=> ~HasEsc(inp.a)
        /\ ~EndsInEscape(inp.a) => res.ab = res.a + res.b
        /\ visible_length(ExampleOS) = 3
        /\ visible_length(ExamplePlain) = 5

C9_Witness ==
    /\ pc = "ret"
    /\ inp.a = <<ESC, "[", "m", "x">>
    /\ inp.b = <<"x", ESC>>
    /\ res.a = 1
    /\ res.ab = 2

(***************************************************************************)
(* The row loop of display_info applied to a logo and an info block        *)
(***************************************************************************)
MaxLogoLines == 3
MaxInfoLines == 3

LogoLineChoices ==
    { <<>>,
      <<"x","x","x">>,
      <<"x","x","x","x","x">>,
      <<ESC,"[","3","1","m","x","x","x",ESC,"[","0","m">>,
      <<ESC,"[","m","x","x","x","x","x">>,
      <<"x",ESC,"[","1">> }

DigitChars == <<"0","1","2","3","4","5","6","7","8","9">>

TestInfoLine(i) == <<ESC,"[","0","m", DigitChars[(i % 10) + 1]>>

InitLayout ==
    /\ build \in Builds
    /\ \E logo \in SeqsUpTo(LogoLineChoices, MaxLogoLines), n \in 0..MaxInfoLines :
          Idle([logo |-> logo, info_lines |-> [i \in 1..n |-> TestInfoLine(i)]])

LayoutRows == Return(Layout(inp.logo, inp.info_lines, build))

SpecLayout == InitLayout /\ [][LayoutRows]_vars

\* the widest visible width of the logo's lines, 0 for an empty logo
MaxLogoWidth(logo) ==
    IF logo = <<>> THEN 0
    ELSE LET i == CHOOSE i \in 1..Len(logo) :
                     \A j \in 1..Len(logo) : OutsideEscapes(logo[j]) <= OutsideEscapes(logo[i])
         IN OutsideEscapes(logo[i])

\* C5: the output has max(L, I) rows; row i is logo line i (empty past the
\* logo), the padding, then info line i (empty past the info block); the
\* padding is maxLogoWidth - visibleWidth(logo cell) + 4, at least 4, so the
\* info cell starts at visible column maxLogoWidth + 4 in every row; with an
\* empty logo every row starts with exactly 4 spaces; no row aborts.
C5_TwoColumn ==
    pc = "ret" =>
        LET L == Len(inp.logo)
            I == Len(inp.info_lines)
            W == MaxLogoWidth(inp.logo)
        IN /\ ~res.abort
           /\ Len(res.rows) = (IF L >= I THEN L ELSE I)
           /\ \A i \in 1..Len(res.rows) :
                 /\ res.rows[i].logo = (IF i <= L THEN inp.logo[i] ELSE <<>>)
                 /\ res.rows[i].info = (IF i <= I THEN inp.info_lines[i] ELSE <<>>)
                 /\ res.rows[i].spaces = W - OutsideEscapes(res.rows[i].logo) + 4
                 /\ res.rows[i].spaces >= 4
                 /\ OutsideEscapes(res.rows[i].logo) + res.rows[i].spaces = W + 4
                 /\ L = 0 => res.rows[i].logo = <<>> /\ res.rows[i].spaces = 4

\* the spec's example: a 2-line logo of visible widths 5 and 3 beside a
\* 3-line info block
C5_Witness ==
    /\ pc = "ret"
    /\ inp.logo = << <<ESC,"[","m","x","x","x","x","x">>,
                     <<ESC,"[","3","1","m","x","x","x",ESC,"[","0","m">> >>
    /\ Len(inp.info_lines) = 3
    /\ Len(res.rows) = 3
    /\ res.rows[2].spaces = 6
    /\ res.rows[3].logo = <<>>
    /\ res.rows[3].spaces = 9


(***************************************************************************)
(* Text the probes build and compare against                               *)
(***************************************************************************)
StrUnknown == <<"U","n","k","n","o","w","n">>
StrUnknownGPU == <<"U","n","k","n","o","w","n"," ","G","P","U">>
StrUnknownCPU == <<"U","n","k","n","o","w","n"," ","C","P","U">>
StrLinux == <<"L","i","n","u","x">>
StrApt == <<" ","(","a","p","t",")">>
StrPacman == <<" ","(","p","a","c","m","a","n",")">>
StrRpm == <<" ","(","r","p","m",")">>
StrVersion == <<"v","e","r","s","i","o","n",":">>
StrMesa == <<"M","e","s","a">>
StrProduct == <<"p","r","o","d","u","c","t",":">>
StrAMDGPU == <<"A","M","D","G","P","U"," ">>
StrRadeon == <<"R","a","d","e","o","n"," ">>
StrI915 == <<"i","9","1","5"," ">>

RECURSIVE Decimal(_)
\* Display of an unsigned integer: its decimal digits
Decimal(n) ==
    IF n < 10 THEN <<DigitChars[n + 1]>>
    ELSE Decimal(n \div 10) \o <<DigitChars[(n % 10) + 1]>>

\* Iterator::find / position over indices: the least index of hits, as an Option
First(hits) ==
    IF hits = {} THEN None ELSE Some(CHOOSE i \in hits : \A j \in hits : i <= j)

(***************************************************************************)
(* get_package_count.  A command of the environment is None when it cannot *)
(* be spawned and Some([stdout, status]) when it can.                      *)
(***************************************************************************)
CountLines(stdout) == Len(Lines(stdout))

get_package_count_checking_status(env) ==
    IF env.dpkg # None /\ env.dpkg[1].status = 0
    THEN [val |-> Decimal(CountLines(env.dpkg[1].stdout)) \o StrApt,
          log |-> <<"dpkg">>, abort |-> FALSE]
    ELSE IF env.pacman # None /\ env.pacman[1].status = 0
    THEN [val |-> Decimal(CountLines(env.pacman[1].stdout)) \o StrPacman,
          log |-> <<"dpkg", "pacman">>, abort |-> FALSE]
    ELSE IF env.rpm # None /\ env.rpm[1].status = 0
    THEN [val |-> Decimal(CountLines(env.rpm[1].stdout)) \o StrRpm,
          log |-> <<"dpkg", "pacman", "rpm">>, abort |-> FALSE]
    ELSE [val |-> StrUnknown, log |-> <<"dpkg", "pacman", "rpm">>, abort |-> FALSE]

get_package_count(env) ==
    IF env.dpkg # None
    THEN [val |-> Decimal(CountLines(env.dpkg[1].stdout)) \o StrApt,
          log |-> <<"dpkg">>, abort |-> FALSE]
    ELSE IF env.pacman # None
    THEN [val |-> Decimal(CountLines(env.pacman[1].stdout)) \o StrPacman,
          log |-> <<"dpkg", "pacman">>, abort |-> FALSE]
    ELSE IF env.rpm # None
    THEN [val |-> Decimal(CountLines(env.rpm[1].stdout)) \o StrRpm,
          log |-> <<"dpkg", "pacman", "rpm">>, abort |-> FALSE]
    ELSE [val |-> StrUnknown, log |-> <<"dpkg", "pacman", "rpm">>, abort |-> FALSE]

MaxPkgOutLen == 3
PkgChars == {"a", NL}
ExitStatuses == {0, 1}

PkgCommands ==
    {None} \cup {Some([stdout |-> o, status |-> x]) :
                    o \in SeqsUpTo(PkgChars, MaxPkgOutLen), x \in ExitStatuses}

InitPkg ==
    /\ build \in Builds
    /\ \E d \in PkgCommands, p \in PkgCommands, r \in PkgCommands :
          Idle([dpkg |-> d, pacman |-> p, rpm |-> r])

PackageCount == Return(get_package_count(inp))

SpecPkg == InitPkg /\ [][PackageCount]_vars

\* the number of lines of a text: its newlines, and one more for a last line
\* that no newline ends
NumLines(s) ==
    Cardinality({i \in 1..Len(s) : s[i] = NL})
        + (IF s # <<>> /\ s[Len(s)] # NL THEN 1 ELSE 0)

\* C2: dpkg, pacman, rpm are tried in that order and the probe stops at the
\* first one that can be invoked, whatever its exit status: "{N} (apt)"
\* whenever dpkg is invocable, "{M} (pacman)" exactly when dpkg is not and
\* pacman is, "{K} (rpm)" exactly when only rpm is, "Unknown" exactly when none
\* is; nothing is invoked after the first command that was invoked.
C2_PackageCount ==
    pc = "ret" =>
        LET d == inp.dpkg
            p == inp.pacman
            r == inp.rpm
        IN /\ ~res.abort
           /\ d # None =>
                 /\ res.val = Decimal(NumLines(d[1].stdout)) \o StrApt
                 /\ res.log = <<"dpkg">>
           /\ (d = None /\ p # None) =>
                 /\ res.val = Decimal(NumLines(p[1].stdout)) \o StrPacman
                 /\ res.log = <<"dpkg", "pacman">>
           /\ (d = None /\ p = None /\ r # None) =>
                 /\ res.val = Decimal(NumLines(r[1].stdout)) \o StrRpm
                 /\ res.log = <<"dpkg", "pacman", "rpm">>
           /\ (d = None /\ p = None /\ r = None) =>
                 /\ res.val = StrUnknown
                 /\ res.log = <<"dpkg", "pacman", "rpm">>
           /\ (Contains(res.val, StrPacman) <=> (d = None /\ p # None))
           /\ (Contains(res.val, StrRpm) <=> (d = None /\ p = None /\ r # None))
           /\ (res.val = StrUnknown <=> (d = None /\ p = None /\ r = None))

\* dpkg exits with a failure and prints nothing while pacman would list two
\* packages: the result is still "0 (apt)" and pacman is never spawned
C2_Witness ==
    /\ pc = "ret"
    /\ inp.dpkg = Some([stdout |-> <<>>, status |-> 1])
    /\ inp.pacman = Some([stdout |-> <<"a", NL, "a">>, status |-> 0])
    /\ res.val = <<"0", " ", "(", "a", "p", "t", ")">>
    /\ res.log = <<"dpkg">>

(***************************************************************************)
(* Driver-version sub-probes.  The environment of the GPU probe:           *)
(*   lspci, lshw, glxinfo: None, or Some(stdout);                          *)
(*   nvidia_smi: None, or Some([name, driver]), the stdout of its two      *)
(*               queries;                                                  *)
(*   modinfo: None, or Some(f), f[module] the stdout of `modinfo module`;  *)
(*   sys_modules: the modules with a directory under /sys/module.          *)
(* The log holds the commands spawned and the paths tested, in order.      *)
(***************************************************************************)
\* the first line starting with "version:", its text after the first colon
VersionLine(stdout) ==
    LET ls == Lines(stdout)
        k == First({i \in 1..Len(ls) : StartsWith(ls[i], StrVersion) /\ Nth(Split(ls[i], ":"), 1) # None})
    IN IF k = None THEN None ELSE Some(Trim(Nth(Split(ls[k[1]], ":"), 1)[1]))

\* the first line containing "Mesa", from "Mesa" to the end of the line
MesaLine(stdout) ==
    LET ls == Lines(stdout)
        k == First({i \in 1..Len(ls) : Contains(ls[i], StrMesa)})
    IN IF k = None THEN None
       ELSE LET line == ls[k[1]]
                mesa_ver == SubSeq(line, Find(line, StrMesa), Len(line))
                end_idx == Find(mesa_ver, <<NL>>)
            IN IF end_idx # 0 THEN Some(Trim(SubSeq(mesa_ver, 1, end_idx - 1)))
               ELSE Some(Trim(mesa_ver))

get_nvidia_driver_version(env) ==
    LET smi == IF env.nvidia_smi = None THEN <<>> ELSE Trim(env.nvidia_smi[1].driver)
        ver == IF env.modinfo = None THEN None ELSE VersionLine(env.modinfo[1]["nvidia"])
    IN IF env.nvidia_smi # None /\ smi # <<>>
       THEN [val |-> smi, log |-> <<"nvidia-smi driver_version">>]
       ELSE IF ver # None
       THEN [val |-> ver[1], log |-> <<"nvidia-smi driver_version", "modinfo nvidia">>]
       ELSE [val |-> StrUnknown, log |-> <<"nvidia-smi driver_version", "modinfo nvidia">>]

\* the Mesa fallback shared by the AMD and the Intel sub-probe
MesaFallback(env, log) ==
    LET mesa == IF env.glxinfo = None THEN None ELSE MesaLine(env.glxinfo[1])
    IN IF mesa # None THEN [val |-> mesa[1], log |-> log \o <<"glxinfo">>]
       ELSE [val |-> StrUnknown, log |-> log \o <<"glxinfo">>]

get_amd_driver_version(env) ==
    LET has_amdgpu == "amdgpu" \in env.sys_modules
        has_radeon == "radeon" \in env.sys_modules
        amdgpu == IF has_amdgpu /\ env.modinfo # None
                  THEN VersionLine(env.modinfo[1]["amdgpu"]) ELSE None
        radeon == IF has_radeon /\ env.modinfo # None
                  THEN VersionLine(env.modinfo[1]["radeon"]) ELSE None
        log1 == <<"exists /sys/module/amdgpu">> \o (IF has_amdgpu THEN <<"modinfo amdgpu">> ELSE <<>>)
        log2 == log1 \o <<"exists /sys/module/radeon">> \o (IF has_radeon THEN <<"modinfo radeon">> ELSE <<>>)
    IN IF amdgpu # None THEN [val |-> StrAMDGPU \o amdgpu[1], log |-> log1]
       ELSE IF radeon # None THEN [val |-> StrRadeon \o radeon[1], log |-> log2]
       ELSE MesaFallback(env, log2)

get_intel_driver_version(env) ==
    LET has_i915 == "i915" \in env.sys_modules
        i915 == IF has_i915 /\ env.modinfo # None
                THEN VersionLine(env.modinfo[1]["i915"]) ELSE None
        log1 == <<"exists /sys/module/i915">> \o (IF has_i915 THEN <<"modinfo i915">> ELSE <<>>)
    IN IF i915 # None THEN [val |-> StrI915 \o i915[1], log |-> log1]
       ELSE MesaFallback(env, log1)

(***************************************************************************)
(* get_gpu_info                                                            *)
(***************************************************************************)
KwVga == <<"v","g","a">>
KwDisplay == <<"d","i","s","p","l","a","y">>
Kw3d == <<"3","d">>
KwGraphics == <<"g","r","a","p","h","i","c","s">>
KwNvidia == <<"n","v","i","d","i","a">>
KwAmd == <<"a","m","d">>
KwRadeon == <<"r","a","d","e","o","n">>
KwAti == <<"a","t","i">>
KwIntel == <<"i","n","t","e","l">>

\* the test of the lspci loop on one line
IsGraphicsLine(line) ==
    LET line_lower == ToLowercase(line)
    IN \/ Contains(line_lower, KwVga)
       \/ Contains(line_lower, KwDisplay)
       \/ Contains(line_lower, Kw3d)
       \/ Contains(line_lower, KwGraphics)

\* the driver of a matched lspci line: the if / else-if chain on line_lower
DriverForLine(env, line) ==
    LET line_lower == ToLowercase(line)
    IN IF Contains(line_lower, KwNvidia) THEN get_nvidia_driver_version(env)
       ELSE IF Contains(line_lower, KwAmd) \/ Contains(line_lower, KwRadeon)
               \/ Contains(line_lower, KwAti)
       THEN get_amd_driver_version(env)
       ELSE IF Contains(line_lower, KwIntel) THEN get_intel_driver_version(env)
       ELSE [val |-> StrUnknown, log |-> <<>>]

\* a tuple (name, driver) with the log of the driver's sub-probe
Named(name, drv) == [val |-> <<name, drv.val>>, log |-> drv.log]

\* return (parts[2].trim().to_string(), driver) for the matched line
LspciHit(env, line) == Named(Trim(Nth(Split(line, ":"), 2)[1]), DriverForLine(env, line))

\* tier 1 taking the first graphics line whatever its number of segments
LspciFirstLineOnly(env, ls) ==
    LET k == First({i \in 1..Len(ls) : IsGraphicsLine(ls[i])})
    IN IF k = None THEN None
       ELSE IF Nth(Split(ls[k[1]], ":"), 2) = None THEN None
       ELSE Some(LspciHit(env, ls[k[1]]))

\* the loop over the lines of lspci: the first line that passes the test and
\* has a third colon-delimited segment returns; None when the loop ends
LspciLoop(env, ls) ==
    LET k == First({i \in 1..Len(ls) : IsGraphicsLine(ls[i]) /\ Nth(Split(ls[i], ":"), 2) # None})
    IN IF k = None THEN None ELSE Some(LspciHit(env, ls[k[1]]))

\* tier 1: lspci, when it could be spawned
LspciTier(env) ==
    IF env.lspci = None THEN None ELSE LspciLoop(env, Lines(env.lspci[1]))

\* tier 2: nvidia-smi's name query, when it printed anything
NvidiaSmiTier(env) ==
    IF env.nvidia_smi = None \/ env.nvidia_smi[1].name = <<>> THEN None
    ELSE Some(Named(Trim(env.nvidia_smi[1].name), get_nvidia_driver_version(env)))

\* the loop over the lines of lshw: the first line containing "product:"
LshwLoop(env, ls) ==
    LET k == First({i \in 1..Len(ls) : Contains(ls[i], StrProduct) /\ Nth(Split(ls[i], ":"), 1) # None})
    IN IF k = None THEN None
       ELSE Some(Named(Trim(Nth(Split(ls[k[1]], ":"), 1)[1]), get_amd_driver_version(env)))

\* tier 3: lshw -C display, when it could be spawned
LshwTier(env) ==
    IF env.lshw = None THEN None ELSE LshwLoop(env, Lines(env.lshw[1]))

\* the first tier that returned, or the final fallback
FirstTier(t1, t2, t3) ==
    IF t1 # None
    THEN [val |-> t1[1].val, log |-> <<"lspci">> \o t1[1].log, abort |-> FALSE]
    ELSE IF t2 # None
    THEN [val |-> t2[1].val, log |-> <<"lspci", "nvidia-smi name">> \o t2[1].log,
          abort |-> FALSE]
    ELSE IF t3 # None
    THEN [val |-> t3[1].val, log |-> <<"lspci", "nvidia-smi name", "lshw">> \o t3[1].log,
          abort |-> FALSE]
    ELSE [val |-> <<StrUnknownGPU, StrUnknown>>,
          log |-> <<"lspci", "nvidia-smi name", "lshw">>, abort |-> FALSE]

get_gpu_info(env) == FirstTier(LspciTier(env), NvidiaSmiTier(env), LshwTier(env))

MaxLspciLines == 2

LspciLineChoices ==
    { <<"0","0",":","1","f",".","3"," ","A","u","d","i","o"," ","d","e","v","i","c","e",":"," ","I","n","t","e","l"," ","C","o","r","p","o","r","a","t","i","o","n">>,
      <<"0","1",":","0","0",".","0"," ","V","G","A"," ","c","o","m","p","a","t","i","b","l","e"," ","c","o","n","t","r","o","l","l","e","r",":"," ","N","V","I","D","I","A"," ","C","o","r","p","o","r","a","t","i","o","n"," ","G","A","1","0","4">>,
      <<"0","0",":","0","2",".","0"," ","V","G","A"," ","c","o","m","p","a","t","i","b","l","e"," ","c","o","n","t","r","o","l","l","e","r",":"," ","I","n","t","e","l"," ","C","o","r","p","o","r","a","t","i","o","n"," ","U","H","D"," ","G","r","a","p","h","i","c","s"," ","6","2","0">>,
      <<"0","0",":","0","2",".","0"," ","D","i","s","p","l","a","y"," ","c","o","n","t","r","o","l","l","e","r",":"," ","I","n","t","e","l"," ","I","r","i","s"," ","X","e">>,
      <<"0","3",":","0","0",".","0"," ","D","i","s","p","l","a","y"," ","c","o","n","t","r","o","l","l","e","r",":"," ","M","a","t","r","o","x"," ","G","2","0","0">>,
      <<"0","6",":","0","0",".","0"," ","3","D"," ","c","o","n","t","r","o","l","l","e","r",":"," ","A","M","D"," ","N","a","v","i"," ","2","3">>,
      <<"V","G","A",":"," ","n","o","n","e">> }

RECURSIVE Unlines(_)
\* a command's stdout: each line followed by a newline
Unlines(ls) == IF ls = <<>> THEN <<>> ELSE Head(ls) \o <<NL>> \o Unlines(Tail(ls))

LspciChoices ==
    {None} \cup {Some(Unlines(ls)) : ls \in SeqsUpTo(LspciLineChoices, MaxLspciLines)}

NvidiaSmiChoices ==
    {None} \cup {Some([name |-> n, driver |-> d]) :
                    n \in {<<>>, <<"N","V","I","D","I","A"," ","G","e","F","o","r","c","e"," ","R","T","X"," ","3","0","7","0",NL>>},
                    d \in {<<"5","3","5",".","5","4",NL>>}}

LshwChoices ==
    {None, Some(<<" "," ","*","-","d","i","s","p","l","a","y",NL," "," "," "," ","p","r","o","d","u","c","t",":"," ","N","a","v","i"," ","2","3",NL," "," "," "," ","v","e","n","d","o","r",":"," ","A","M","D",NL>>),
           Some(<<" "," ","*","-","d","i","s","p","l","a","y"," ","U","N","C","L","A","I","M","E","D",NL>>)}

Modules == {"nvidia", "amdgpu", "radeon", "i915"}

ModinfoChoices ==
    {None} \cup {Some([m \in Modules |-> IF m \in S THEN <<"l","i","c","e","n","s","e",":"," ","G","P","L",NL,"v","e","r","s","i","o","n",":"," "," "," ","1",".","2",NL>>
                                                    ELSE <<"l","i","c","e","n","s","e",":"," ","G","P","L",NL>>]) :
                    S \in {{}, Modules}}

SysModuleChoices == {{}, {"radeon"}, {"i915"}, {"amdgpu", "radeon"}}

GlxinfoChoices ==
    {None, Some(<<"O","p","e","n","G","L"," ","v","e","r","s","i","o","n"," ","s","t","r","i","n","g",":"," ","4",".","6"," ","M","e","s","a"," ","2","3",".","0",".","4",NL>>)}

InitGpu ==
    /\ build = "release"
    /\ \E l \in LspciChoices, n \in NvidiaSmiChoices, h \in LshwChoices,
          m \in ModinfoChoices, y \in SysModuleChoices, g \in GlxinfoChoices :
          Idle([lspci |-> l, nvidia_smi |-> n, lshw |-> h, modinfo |-> m,
                sys_modules |-> y, glxinfo |-> g])

GpuInfo == Return(get_gpu_info(inp))

SpecGpu == InitGpu /\ [][GpuInfo]_vars

\* the positions of the colons of a line, and its n-th colon-delimited segment
Colons(l) == {i \in 1..Len(l) : l[i] = ":"}

KthColon(l, k) ==
    CHOOSE i \in Colons(l) : Cardinality({j \in Colons(l) : j < i}) = k - 1

Segment(l, n) ==
    SubSeq(l, IF n = 1 THEN 1 ELSE KthColon(l, n - 1) + 1,
              IF Cardinality(Colons(l)) >= n THEN KthColon(l, n) - 1 ELSE Len(l))

\* s occurs in l, letter case ignored
OccursNoCase(l, s) == LET low == ToLowercase(l) IN Contains(low, s)

HasKeyword(l) ==
    LET low == ToLowercase(l)
    IN \E kw \in {KwVga, KwDisplay, Kw3d, KwGraphics} : Contains(low, kw)

MinOf(S) == CHOOSE i \in S : \A j \in S : i <= j

LspciLinesOf(env) == IF env.lspci = None THEN <<>> ELSE Lines(env.lspci[1])
LshwLinesOf(env) == IF env.lshw = None THEN <<>> ELSE Lines(env.lshw[1])

\* the lspci lines with a keyword, and those among them with a third segment
KeywordLines(ls) == {i \in 1..Len(ls) : HasKeyword(ls[i])}
UsableLines(ls) == {i \in 1..Len(ls) : HasKeyword(ls[i]) /\ Cardinality(Colons(ls[i])) >= 2}
ProductLines(hs) == {i \in 1..Len(hs) : Contains(hs[i], StrProduct)}
SmiNamed(env) == env.nvidia_smi # None /\ env.nvidia_smi[1].name # <<>>

Tried(what) == \E i \in 1..Len(res.log) : res.log[i] = what

\* what C3 says of tiers 2, 3 and 4, given the set of lspci lines that count
\* as a match
LaterTiers(matches) ==
    LET hs == LshwLinesOf(inp)
        products == ProductLines(hs)
    IN /\ (matches = {} /\ SmiNamed(inp)) =>
             LET drv == get_nvidia_driver_version(inp)
             IN /\ res.val[1] = Trim(inp.nvidia_smi[1].name)
                /\ res.val[2] = drv.val
                /\ res.log = <<"lspci", "nvidia-smi name">> \o drv.log
       /\ (matches = {} /\ ~SmiNamed(inp) /\ products # {}) =>
             LET drv == get_amd_driver_version(inp)
             IN /\ res.val[1] = Trim(Segment(hs[MinOf(products)], 2))
                /\ res.val[2] = drv.val
                /\ res.log = <<"lspci", "nvidia-smi name", "lshw">> \o drv.log
       /\ (matches = {} /\ ~SmiNamed(inp) /\ products = {}) =>
             res.val = <<StrUnknownGPU, StrUnknown>>
       /\ (res.log = <<"lspci", "nvidia-smi name", "lshw">>)
             <=> (matches = {} /\ ~SmiNamed(inp) /\ products = {})
       /\ Tried("nvidia-smi name") <=> matches = {}
       /\ Tried("lshw") <=> (matches = {} /\ ~SmiNamed(inp))

\* C3 as stated: the tiers are tried in the order lspci, nvidia-smi, lshw,
\* fallback, each only if every earlier one produced nothing; when lspci
\* prints a line with one of the keywords, the GPU name is the trimmed third
\* colon-delimited segment of the first such line and no later tier is tried.
C3_AsStated ==
    pc = "ret" =>
        LET ls == LspciLinesOf(inp)
            matches == KeywordLines(ls)
        IN /\ res.log[1] = "lspci"
           /\ matches # {} =>
                 /\ Cardinality(Colons(ls[MinOf(matches)])) >= 2
                 /\ res.val[1] = Trim(Segment(ls[MinOf(matches)], 3))
           /\ LaterTiers(matches)

\* C3, amended: as stated, with "the first such line" read as the first line
\* that has a keyword and at least three colon-delimited segments; keyword
\* lines with fewer segments are skipped and do not count as a match.
C3_GpuTiers ==
    pc = "ret" =>
        LET ls == LspciLinesOf(inp)
            matches == UsableLines(ls)
        IN /\ res.log[1] = "lspci"
           /\ matches # {} => res.val[1] = Trim(Segment(ls[MinOf(matches)], 3))
           /\ LaterTiers(matches)

C3_Witness ==
    /\ pc = "ret"
    /\ LspciLinesOf(inp) = << <<"V","G","A",":"," ","n","o","n","e">>,
                              <<"0","1",":","0","0",".","0"," ","V","G","A"," ","c","o","m","p","a","t","i","b","l","e"," ","c","o","n","t","r","o","l","l","e","r",":"," ","N","V","I","D","I","A"," ","C","o","r","p","o","r","a","t","i","o","n"," ","G","A","1","0","4">> >>
    /\ res.val[1] = <<"N","V","I","D","I","A"," ","C","o","r","p","o","r","a","t","i","o","n"," ","G","A","1","0","4">>
    /\ ~Tried("nvidia-smi name")

\* w occurs in l as a word: not inside a longer run of letters
IsLetter(c) == \E i \in 1..Len(LowerChars) : LowerChars[i] = ToLowerChar(c)

NamesWord(l, w) ==
    \E i \in 1..(Len(l) - Len(w) + 1) :
        /\ ToLowercase(SubSeq(l, i, i + Len(w) - 1)) = w
        /\ i = 1 \/ ~IsLetter(l[i - 1])
        /\ i + Len(w) - 1 = Len(l) \/ ~IsLetter(l[i + Len(w)])

NvidiaProbed == Len(res.log) >= 2 /\ res.log[2] = "nvidia-smi driver_version"
AmdProbed == Len(res.log) >= 2 /\ res.log[2] = "exists /sys/module/amdgpu"
IntelProbed == Len(res.log) >= 2 /\ res.log[2] = "exists /sys/module/i915"

\* C8: when tier 1 returns, the driver comes from the line that gave the
\* name: the NVIDIA sub-probe if it contains "nvidia", else the AMD one if it
\* contains "amd", "radeon" or "ati", else the Intel one if it contains
\* "intel", else "Unknown" with no sub-probe; and the Intel sub-probe runs for
\* every matched line of an Intel device: one that contains "intel" and names
\* none of the vendors NVIDIA, AMD, Radeon, ATI.
C8_AsStated ==
    (pc = "ret" /\ UsableLines(LspciLinesOf(inp)) # {}) =>
        LET ls == LspciLinesOf(inp)
            line == ls[MinOf(UsableLines(ls))]
            amdish == OccursNoCase(line, KwAmd) \/ OccursNoCase(line, KwRadeon)
                          \/ OccursNoCase(line, KwAti)
        IN /\ OccursNoCase(line, KwNvidia) => NvidiaProbed
           /\ (~OccursNoCase(line, KwNvidia) /\ amdish) => AmdProbed
           /\ (~OccursNoCase(line, KwNvidia) /\ ~amdish /\ OccursNoCase(line, KwIntel))
                 => IntelProbed
           /\ (~OccursNoCase(line, KwNvidia) /\ ~amdish /\ ~OccursNoCase(line, KwIntel))
                 => (res.val[2] = StrUnknown /\ res.log = <<"lspci">>)
           /\ (/\ OccursNoCase(line, KwIntel)
               /\ \A v \in {KwNvidia, KwAmd, KwRadeon, KwAti} : ~NamesWord(line, v))
                 => IntelProbed

(***************************************************************************)
(* Numbers: str::parse::<u64>, the {:.2} display of an f64, u64 subtraction *)
(***************************************************************************)
IsDigit(c) == \E i \in 1..Len(DigitChars) : DigitChars[i] = c
DigitValue(c) == (CHOOSE i \in 1..Len(DigitChars) : DigitChars[i] = c) - 1

AllDigits(s) == \A i \in 1..Len(s) : IsDigit(s[i])

RECURSIVE DigitsValue(_)
DigitsValue(s) ==
    IF s = <<>> THEN 0
    ELSE DigitsValue(SubSeq(s, 1, Len(s) - 1)) * 10 + DigitValue(s[Len(s)])

\* str::parse::<u64>: an optional "+", then one digit or more (tokens of at
\* most nine digits, so that the value is an integer of the model)
ParseU64(tok) ==
    LET digits == IF tok # <<>> /\ tok[1] = "+" THEN Tail(tok) ELSE tok
    IN IF digits # <<>> /\ AllDigits(digits) THEN Some(DigitsValue(digits)) ELSE None

\* num / den rounded to the nearest integer, ties to the even one: how a
\* float is rounded when displayed with a precision, and a u64 when cast
RoundHalfEven(num, den) ==
    LET q == num \div den
        r == num % den
    IN IF 2 * r > den \/ (2 * r = den /\ q % 2 = 1) THEN q + 1 ELSE q

\* the decimal text of a number of hundredths: "{:.2}"
TwoDecimals(h) ==
    Decimal(h \div 100) \o <<".", DigitChars[((h % 100) \div 10) + 1], DigitChars[(h % 10) + 1]>>

\* kb / unit, in hundredths, as {:.2} rounds it
Hundredths(kb, unit) == (kb \div unit) * 100 + RoundHalfEven((kb % unit) * 100, unit)

StrGB == <<" ","G","B">>
StrMB == <<" ","M","B">>
MiB == 1024 * 1024

\* a u64 is [wrapped, n]: the number n, or 2^64 - n when wrapped
U64(n) == [wrapped |-> FALSE, n |-> n]

\* total - available on u64: a panic with overflow checks, else modulo 2^64
U64Sub(a, b, bld) ==
    IF b <= a THEN Some(U64(a - b))
    ELSE IF bld = "debug" THEN None
    ELSE Some([wrapped |-> TRUE, n |-> b - a])

\* 2^64 - d (0 < d < 2^31) cast to f64 is 2^64 - 2048 * k, k = d / 2048
\* rounded; over 2^20 that is 17592186044416 - k / 512, whose last seven
\* digits of hundredths are 4441600 - the hundredths of k / 512
format_wrapped_size(d) ==
    LET k == RoundHalfEven(d, 2048)
        low == 4441600 - RoundHalfEven(k * 100, 512)
    IN <<"1","7","5","9","2","1","8","6","0">> \o TwoDecimals(low) \o StrGB

\* size_mb = size_kb / 1024.0 is exact, so size_mb > 1024.0 iff size_kb > 2^20
format_memory_size(size_kb) ==
    IF size_kb.wrapped THEN format_wrapped_size(size_kb.n)
    ELSE IF size_kb.n > MiB THEN TwoDecimals(Hundredths(size_kb.n, MiB)) \o StrGB
    ELSE TwoDecimals(Hundredths(size_kb.n, 1024)) \o StrMB

(***************************************************************************)
(* get_memory_info; /proc/meminfo is None when unreadable, else Some(text) *)
(***************************************************************************)
StrMemTotal == <<"M","e","m","T","o","t","a","l",":">>
StrMemAvailable == <<"M","e","m","A","v","a","i","l","a","b","l","e",":">>

\* the value a line assigns: the second token, when it parses
LineValue(line) ==
    LET value == SecondToken(line)
    IN IF value = None THEN None ELSE ParseU64(value[1])

RECURSIVE ScanMeminfo(_, _, _, _)
\* the loop over the lines: total and available after line i and the rest
ScanMeminfo(ls, i, total, available) ==
    IF i > Len(ls) THEN [total |-> total, available |-> available]
    ELSE IF StartsWith(ls[i], StrMemTotal)
    THEN ScanMeminfo(ls, i + 1,
                     IF LineValue(ls[i]) # None THEN LineValue(ls[i])[1] ELSE total, available)
    ELSE IF StartsWith(ls[i], StrMemAvailable)
    THEN ScanMeminfo(ls, i + 1, total,
                     IF LineValue(ls[i]) # None THEN LineValue(ls[i])[1] ELSE available)
    ELSE ScanMeminfo(ls, i + 1, total, available)

get_memory_info(meminfo, bld) ==
    LET m == IF meminfo = None THEN [total |-> 0, available |-> 0]
             ELSE ScanMeminfo(Lines(meminfo[1]), 1, 0, 0)
        used == U64Sub(m.total, m.available, bld)
    IN IF used = None
       THEN [val |-> <<>>, log |-> <<>>, abort |-> TRUE,
             total |-> m.total, available |-> m.available, used |-> None]
       ELSE [val |-> <<format_memory_size(used[1]), format_memory_size(U64(m.total))>>,
             log |-> <<>>, abort |-> FALSE,
             total |-> m.total, available |-> m.available, used |-> used]

MaxMemLines == 2

MeminfoLineChoices ==
    { <<"M","e","m","T","o","t","a","l",":"," "," "," "," "," "," "," "," ","8","0","0","0","0","0","0"," ","k","B">>,
      <<"M","e","m","T","o","t","a","l",":"," "," "," "," "," "," "," "," ","1","0","4","8","5","7","6"," ","k","B">>,
      <<"M","e","m","T","o","t","a","l",":"," "," "," "," "," "," "," "," ","1","0","0","0"," ","k","B">>,
      <<"M","e","m","T","o","t","a","l",":","8","0","0","0","0","0","0"," ","k","B">>,
      <<"M","e","m","F","r","e","e",":"," "," "," "," "," "," "," "," "," ","3","0","0","0","0","0","0"," ","k","B">>,
      <<"M","e","m","A","v","a","i","l","a","b","l","e",":"," "," "," "," ","2","0","0","0","0","0","0"," ","k","B">>,
      <<"M","e","m","A","v","a","i","l","a","b","l","e",":"," "," "," "," ","2","0","0","0"," ","k","B">>,
      <<"M","e","m","A","v","a","i","l","a","b","l","e",":"," "," "," "," ","-","1"," ","k","B">> }

MeminfoChoices ==
    {None} \cup {Some(Unlines(ls)) : ls \in SeqsUpTo(MeminfoLineChoices, MaxMemLines)}

InitMem ==
    /\ build \in Builds
    /\ \E f \in MeminfoChoices : Idle([meminfo |-> f])

MemoryInfo == Return(get_memory_info(inp.meminfo, build))

SpecMem == InitMem /\ [][MemoryInfo]_vars

\* the file has a line of the field whose second token is a number
FieldPresent(file, field) ==
    /\ file # None
    /\ \E i \in 1..Len(Lines(file[1])) :
          StartsWith(Lines(file[1])[i], field) /\ LineValue(Lines(file[1])[i]) # None

\* "{:.2} GB" of kb / 1024 / 1024 when kb / 1024 > 1024, else "{:.2} MB" of
\* kb / 1024
Rendered(kb) ==
    IF kb > 1024 * 1024
    THEN TwoDecimals(RoundHalfEven(kb * 100, 1024 * 1024)) \o StrGB
    ELSE TwoDecimals(RoundHalfEven(kb * 100, 1024)) \o StrMB

\* C6: used = MemTotal - MemAvailable and total = MemTotal, a missing or
\* unparsable field counting as 0; used is a kibibyte count between 0 and
\* total for every file content; each value is rendered "{:.2} GB" when
\* value / 1024 > 1024 and "{:.2} MB" otherwise (8000000 and 2000000 give
\* "5.72 GB" / "7.63 GB"); an unreadable file or an absent field gives
\* "0.00 MB" for both.
C6_AsStated ==
    pc = "ret" =>
        /\ ~res.abort
        /\ ~res.used[1].wrapped
        /\ res.used[1].n = res.total - res.available
        /\ res.used[1].n >= 0 /\ res.used[1].n <= res.total
        /\ res.val = <<Rendered(res.used[1].n), Rendered(res.total)>>
        /\ (res.total = 8000000 /\ res.available = 2000000)
              => res.val = << <<"5",".","7","2"," ","G","B">>, <<"7",".","6","3"," ","G","B">> >>
        /\ (~FieldPresent(inp.meminfo, StrMemTotal) \/ ~FieldPresent(inp.meminfo, StrMemAvailable))
              => res.val = << <<"0",".","0","0"," ","M","B">>, <<"0",".","0","0"," ","M","B">> >>

(***************************************************************************)
(* get_uptime and format_uptime; /proc/uptime is None when unreadable      *)
(***************************************************************************)
StrInf == <<"i","n","f">>
StrInfinity == <<"i","n","f","i","n","i","t","y">>
StrNan == <<"n","a","n">>

\* str::parse::<f64> on tokens without an exponent part: an optional sign,
\* then "inf", "infinity" or "nan" in any letter case, or digits with at most
\* one "." and at least one digit.  Some([kind, neg, whole, zero]): whole is
\* the integer part of the magnitude, zero says the magnitude is 0.
ParseF64(tok) ==
    LET signed == tok # <<>> /\ tok[1] \in {"+", "-"}
        neg == tok # <<>> /\ tok[1] = "-"
        body == IF signed THEN Tail(tok) ELSE tok
        low == ToLowercase(body)
        dot == Find(body, <<".">>)
        int == IF dot = 0 THEN body ELSE SubSeq(body, 1, dot - 1)
        frac == IF dot = 0 THEN <<>> ELSE SubSeq(body, dot + 1, Len(body))
    IN IF low = StrInf \/ low = StrInfinity
       THEN Some([kind |-> "inf", neg |-> neg, whole |-> 0, zero |-> FALSE])
       ELSE IF low = StrNan
       THEN Some([kind |-> "nan", neg |-> neg, whole |-> 0, zero |-> FALSE])
       ELSE IF AllDigits(int) /\ AllDigits(frac) /\ Len(int) + Len(frac) > 0
       THEN Some([kind |-> "finite", neg |-> neg, whole |-> DigitsValue(int),
                  zero |-> DigitsValue(int) = 0 /\ DigitsValue(frac) = 0])
       ELSE None

\* Duration::from_secs_f64 and then as_secs: None for the panic on a
\* negative, NaN or infinite argument
WholeSeconds(secs) ==
    IF secs.kind # "finite" \/ (secs.neg /\ ~secs.zero) THEN None ELSE Some(secs.whole)

StrD == <<"d"," ">>
StrH == <<"h"," ">>
StrM == <<"m">>

format_uptime(total_secs) ==
    LET days == total_secs \div 86400
        hours == (total_secs % 86400) \div 3600
        mins == (total_secs % 3600) \div 60
    IN IF days > 0 THEN Decimal(days) \o StrD \o Decimal(hours) \o StrH \o Decimal(mins) \o StrM
       ELSE IF hours > 0 THEN Decimal(hours) \o StrH \o Decimal(mins) \o StrM
       ELSE Decimal(mins) \o StrM

get_uptime(uptime) ==
    LET secs_str == IF uptime = None THEN None ELSE FirstToken(uptime[1])
        secs == IF secs_str = None THEN None ELSE ParseF64(secs_str[1])
        whole == IF secs = None THEN None ELSE WholeSeconds(secs[1])
    IN IF secs = None THEN [val |-> StrUnknown, log |-> <<>>, abort |-> FALSE]
       ELSE IF whole = None THEN [val |-> <<>>, log |-> <<>>, abort |-> TRUE]
       ELSE [val |-> format_uptime(whole[1]), log |-> <<>>, abort |-> FALSE]

MaxTokLen == 3
UptimeChars == {"0", "7", ".", "-", "x"}

UptimeTokenExamples ==
    { <<"9","0","0","0","0",".","5","5">>, <<"3","6","6","1">>, <<"5","9">>, <<"8","6","3","9","9",".","9","9">>, <<"1","7","2","8","0","0">>,
      <<"-","5">>, <<"-","0",".","0">>, <<"+","7","2","0","0">>, <<"n","a","n">>, <<"i","n","f">>, <<"-","I","n","f","i","n","i","t","y">> }

UptimeTokens == SeqsUpTo(UptimeChars, MaxTokLen) \cup UptimeTokenExamples

UptimeChoices ==
    {None, Some(<<" ",NL>>)} \cup {Some(t \o <<" ","1","2","3","4","5",".","6","7",NL>>) : t \in UptimeTokens}

InitUptime ==
    /\ build \in Builds
    /\ \E f \in UptimeChoices : Idle([uptime |-> f])

Uptime == Return(get_uptime(inp.uptime))

SpecUptime == InitUptime /\ [][Uptime]_vars

\* the first whitespace-delimited token of the file, <<>> when there is none
TokenOf(file) ==
    IF file = None THEN <<>>
    ELSE LET starts == {i \in 1..Len(file[1]) : ~IsWhitespace(file[1][i])}
         IN IF starts = {} THEN <<>>
            ELSE LET a == MinOf(starts)
                     stops == {i \in a..Len(file[1]) : IsWhitespace(file[1][i])}
                 IN SubSeq(file[1], a, IF stops = {} THEN Len(file[1]) ELSE MinOf(stops) - 1)

\* the token denotes a valid seconds count: a decimal number, signed or not,
\* that is not below zero
ValidSeconds(tok) ==
    LET body == IF tok # <<>> /\ tok[1] \in {"+", "-"} THEN Tail(tok) ELSE tok
        dots == {i \in 1..Len(body) : body[i] = "."}
    IN /\ \A i \in 1..Len(body) : IsDigit(body[i]) \/ body[i] = "."
       /\ Cardinality(dots) <= 1
       /\ Len(body) > Cardinality(dots)
       /\ (tok[1] = "-") => \A i \in 1..Len(body) : body[i] \in {"0", "."}

\* the whole seconds of a valid token: the value of the digits before the "."
SecondsOf(tok) ==
    LET body == IF tok[1] \in {"+", "-"} THEN Tail(tok) ELSE tok
        dots == {i \in 1..Len(body) : body[i] = "."}
    IN DigitsValue(IF dots = {} THEN body ELSE SubSeq(body, 1, MinOf(dots) - 1))

\* C7: when the first token of /proc/uptime is a number of seconds, the
\* uptime is "{d}d {h}h {m}m" if d >= 1, else "{h}h {m}m" if h >= 1, else
\* "{m}m", with d = S div 86400, h = (S mod 86400) div 3600 <= 23,
\* m = (S mod 3600) div 60 <= 59 (90000 -> "1d 1h 0m", 3661 -> "1h 1m",
\* 59 -> "0m"); when it is not (no file, no token, not a number, a negative
\* or non-finite number) the uptime is "Unknown".
C7_AsStated ==
    pc = "ret" =>
        LET tok == TokenOf(inp.uptime)
        IN /\ ~res.abort
           /\ ValidSeconds(tok) =>
                 LET S == SecondsOf(tok)
                     d == S \div 86400
                     h == (S % 86400) \div 3600
                     m == (S % 3600) \div 60
                 IN /\ h <= 23 /\ m <= 59
                    /\ res.val = (IF d >= 1
                                  THEN Decimal(d) \o <<"d", " ">> \o Decimal(h) \o <<"h", " ">>
                                           \o Decimal(m) \o <<"m">>
                                  ELSE IF h >= 1
                                  THEN Decimal(h) \o <<"h", " ">> \o Decimal(m) \o <<"m">>
                                  ELSE Decimal(m) \o <<"m">>)
           /\ ~ValidSeconds(tok) => res.val = StrUnknown
           /\ tok = <<"9","0","0","0","0",".","5","5">> => res.val = <<"1","d"," ","1","h"," ","0","m">>
           /\ tok = <<"3","6","6","1">> => res.val = <<"1","h"," ","1","m">>
           /\ tok = <<"5","9">> => res.val = <<"0","m">>

(***************************************************************************)
(* The remaining probes                                                    *)
(***************************************************************************)
StrPrettyName == <<"P","R","E","T","T","Y","_","N","A","M","E","=">>
StrModelName == <<"m","o","d","e","l"," ","n","a","m","e">>

\* files are None when unreadable, environment variables None when unset,
\* commands None when they cannot be spawned
get_hostname(hostname) ==
    [val |-> Trim(IF hostname = None THEN StrUnknown ELSE hostname[1]),
     log |-> <<>>, abort |-> FALSE]

RECURSIVE TrimQuotes(_)
\* str::trim_matches('"')
TrimQuotes(s) ==
    IF s # <<>> /\ Head(s) = "\"" THEN TrimQuotes(Tail(s))
    ELSE IF s # <<>> /\ s[Len(s)] = "\"" THEN TrimQuotes(SubSeq(s, 1, Len(s) - 1))
    ELSE s

get_os_info(os_release) ==
    LET ls == IF os_release = None THEN <<>> ELSE Lines(os_release[1])
        k == First({i \in 1..Len(ls) : StartsWith(ls[i], StrPrettyName)})
    IN [val |-> IF k = None THEN StrLinux
                ELSE TrimQuotes(SubSeq(ls[k[1]], Len(StrPrettyName) + 1, Len(ls[k[1]]))),
        log |-> <<>>, abort |-> FALSE]

get_kernel_version(uname) ==
    IF uname = None THEN [val |-> <<>>, log |-> <<"uname">>, abort |-> TRUE]
    ELSE [val |-> Trim(uname[1]), log |-> <<"uname">>, abort |-> FALSE]

get_shell(shell) ==
    LET segs == Split(IF shell = None THEN StrUnknown ELSE shell[1], "/")
    IN [val |-> segs[Len(segs)], log |-> <<>>, abort |-> FALSE]

get_terminal(term) == [val |-> term, log |-> <<>>, abort |-> FALSE]

get_cpu_info(cpuinfo) ==
    LET ls == IF cpuinfo = None THEN <<>> ELSE Lines(cpuinfo[1])
        k == First({i \in 1..Len(ls) : StartsWith(ls[i], StrModelName)})
    IN [val |-> IF k = None THEN StrUnknownCPU
                ELSE LET seg == Nth(Split(ls[k[1]], ":"), 1)
                     IN Trim(IF seg = None THEN StrUnknown ELSE seg[1]),
        log |-> <<>>, abort |-> FALSE]

\* env.USER, else env.USERNAME, else the trimmed output of `whoami`
whoami(env) ==
    IF env.USER # None THEN [val |-> env.USER[1], log |-> <<>>, abort |-> FALSE]
    ELSE IF env.USERNAME # None THEN [val |-> env.USERNAME[1], log |-> <<>>, abort |-> FALSE]
    ELSE IF env.whoami = None THEN [val |-> <<>>, log |-> <<"whoami">>, abort |-> TRUE]
    ELSE [val |-> Trim(env.whoami[1]), log |-> <<"whoami">>, abort |-> FALSE]

(***************************************************************************)
(* display_info: the logo, the info lines                                  *)
(***************************************************************************)
FallbackLogo ==
    << <<" "," "," "," "," "," ","/","\\"," "," "," "," "," "," ">>,
       <<" "," "," "," "," ","/"," "," ","\\"," "," "," "," "," ">>,
       <<" "," "," "," ","/","\\"," "," "," ","\\"," "," "," "," ">>,
       <<" "," "," ","/"," "," "," "," "," "," ","\\"," "," "," ">>,
       <<" "," ","/"," "," "," ",",",","," "," "," ","\\"," "," ">>,
       <<" ","/"," "," "," ","|"," "," ","|"," "," "," ","\\"," ">>,
       <<"/","_","-","'","'"," "," "," "," ","'","'","-","_","\\">>,
       <<" "," "," "," "," "," "," "," "," "," "," "," "," ">> >>

\* the character loop of read_logo_file: a line per "\n", and the rest when
\* it is not empty
LogoLines(content) ==
    LET segs == Split(content, NL)
    IN IF segs[Len(segs)] = <<>> THEN SubSeq(segs, 1, Len(segs) - 1) ELSE segs

\* fs.resources: [exists, text] for resources/fumofetch_logo.txt, text None
\* when it cannot be read; fs.cwd: None or Some(text) for
\* ./fumofetch_logo.txt.  None is the io::Error.
read_logo_file(fs) ==
    IF fs.resources.exists
    THEN IF fs.resources.text = None THEN None ELSE Some(LogoLines(fs.resources.text[1]))
    ELSE IF fs.cwd = None THEN None
    ELSE Some(LogoLines(fs.cwd[1]))

LoadLogo(fs) == IF read_logo_file(fs) = None THEN FallbackLogo ELSE read_logo_file(fs)[1]

StrBoldCyan == <<ESC,"[","1",";","3","6","m">>
StrBoldGreen == <<ESC,"[","1",";","3","2","m">>
StrReset == <<ESC,"[","0","m">>

Labelled(label, value) == StrBoldGreen \o label \o StrReset \o <<" ">> \o value

\* the eleven format! calls, given the user name
InfoLines(user, i) ==
    << StrBoldCyan \o user \o <<"@">> \o i.hostname \o StrReset,
       Labelled(<<"O","S",":">>, i.os),
       Labelled(<<"K","e","r","n","e","l",":">>, i.kernel),
       Labelled(<<"U","p","t","i","m","e",":">>, i.uptime),
       Labelled(<<"S","h","e","l","l",":">>, i.shell),
       Labelled(<<"T","e","r","m","i","n","a","l",":">>, IF i.terminal = None THEN StrUnknown ELSE i.terminal[1]),
       Labelled(<<"P","a","c","k","a","g","e","s",":">>, i.packages),
       Labelled(<<"C","P","U",":">>, i.cpu),
       Labelled(<<"G","P","U",":">>, i.gpu),
       Labelled(<<"G","P","U"," ","D","r","i","v","e","r",":">>, i.gpu_driver),
       Labelled(<<"M","e","m","o","r","y",":">>, i.memory[1] \o <<" ","/"," ">> \o i.memory[2]) >>

HideCursor == <<ESC,"[","?","2","5","l">>
ShowCursor == <<ESC,"[","?","2","5","h">>

(***************************************************************************)
(* A run of the program: main calls get_system_info, whose fields are      *)
(* evaluated in the order written, then display_info.  host is what stays  *)
(* the same during a run: the files of the host's configuration, the       *)
(* environment variables, the logo files.  /proc/uptime, /proc/meminfo and *)
(* what a command prints are read when the step runs, and may differ from  *)
(* one read to the next.  res holds the locals of display_info, out what   *)
(* was printed, cmds the commands spawned, gpuCalls what each get_gpu_info *)
(* returned, abortAt the function that panicked.                           *)
(***************************************************************************)
ProbeOrder ==
    <<"hostname", "os", "kernel", "uptime", "shell", "terminal", "packages",
      "cpu", "gpu.0", "gpu.1", "memory">>

DisplayOrderHideFirst ==
    <<"print hide", "logo", "info_lines", "max_logo_len", "rows", "print show">>

DisplayOrder ==
    <<"logo", "info_lines", "print hide", "max_logo_len", "rows", "print show">>

Steps == ProbeOrder \o DisplayOrder

At(step) == pc \in 1..Len(Steps) /\ Steps[pc] = step

Done == pc = Len(Steps) + 1
Aborted == pc = 0

EmptyInfo ==
    [hostname |-> <<>>, os |-> <<>>, kernel |-> <<>>, uptime |-> <<>>, shell |-> <<>>,
     terminal |-> None, packages |-> <<>>, cpu |-> <<>>, gpu |-> <<>>,
     gpu_driver |-> <<>>, memory |-> <<>>]

\* the locals of display_info: i is the variable of the for loop
NoLocals == [logo |-> <<>>, info_lines |-> <<>>, max_logo_len |-> 0, i |-> 0]

LogoText ==
    <<ESC,"[","3","1","m"," "," ","_","_"," "," ",ESC,"[","0","m",NL,ESC,"[","3","1","m"," ","/"," "," ","\\"," ",ESC,"[","0","m",NL," ","|","o","o","|",NL," ","|"," "," ","|",NL,"/","|"," "," ","|","\\",NL," ","|"," "," ","|",NL," ","|","_","_","|",NL," "," ","|","|",NL," "," ","|","|",NL," "," ","|","|",NL," "," ","|","|",NL," ","_","|","|","_",NL,ESC,"[","1","m"," ","f","u","m","o">>

NoFile == [exists |-> FALSE, text |-> None]

\* hosts: nothing configured; everything configured; an unreadable logo under
\* resources/ and only USERNAME set; an empty logo file and no user variable
EnvChoices ==
    { [hostname |-> None, os_release |-> None, cpuinfo |-> None,
       SHELL |-> None, TERM |-> None, USER |-> None, USERNAME |-> None,
       resources |-> NoFile, cwd |-> None],
      [hostname |-> Some(<<"f","u","m","o",NL>>),
       os_release |-> Some(<<"N","A","M","E","=","\"","U","b","u","n","t","u","\"",NL,"P","R","E","T","T","Y","_","N","A","M","E","=","\"","U","b","u","n","t","u"," ","2","2",".","0","4","\"",NL>>),
       cpuinfo |-> Some(<<"p","r","o","c","e","s","s","o","r",TAB,":"," ","0",NL,"m","o","d","e","l"," ","n","a","m","e",TAB,":"," ","I","n","t","e","l","(","R",")"," ","C","o","r","e","(","T","M",")"," ","i","7",NL>>),
       SHELL |-> Some(<<"/","b","i","n","/","b","a","s","h">>), TERM |-> Some(<<"x","t","e","r","m">>),
       USER |-> Some(<<"r","e","i","m","u">>), USERNAME |-> None,
       resources |-> [exists |-> TRUE, text |-> Some(LogoText)], cwd |-> None],
      [hostname |-> Some(<<"f","u","m","o",NL>>),
       os_release |-> Some(<<"N","A","M","E","=","\"","U","b","u","n","t","u","\"",NL>>),
       cpuinfo |-> Some(<<"m","o","d","e","l"," ","n","a","m","e",NL>>),
       SHELL |-> Some(<<"z","s","h">>), TERM |-> None,
       USER |-> None, USERNAME |-> Some(<<"m","a","r","i","s","a">>),
       resources |-> [exists |-> TRUE, text |-> None], cwd |-> Some(LogoText)],
      [hostname |-> Some(<<>>), os_release |-> None, cpuinfo |-> None,
       SHELL |-> Some(<<"/","b","i","n","/","s","h">>), TERM |-> Some(<<"d","u","m","b">>),
       USER |-> None, USERNAME |-> None,
       resources |-> NoFile, cwd |-> Some(<<>>)] }

Init ==
    /\ pc = 1
    /\ build \in Builds
    /\ host \in EnvChoices
    /\ inp = <<>>
    /\ res = NoLocals
    /\ info = EmptyInfo
    /\ out = <<>>
    /\ cmds = <<>>
    /\ abortAt = "none"
    /\ gpuCalls = <<>>

\* what a call's return does to the run: the next step, or the panic
Proceed(r, who) ==
    /\ cmds' = cmds \o r.log
    /\ IF r.abort
       THEN pc' = 0 /\ abortAt' = who
       ELSE pc' = pc + 1 /\ abortAt' = abortAt
    /\ UNCHANGED <<build, host, inp>>

\* one field initialiser of the SystemInfo literal
Field(name, r, who) ==
    /\ At(name)
    /\ Proceed(r, who)
    /\ info' = IF r.abort THEN info ELSE [info EXCEPT ![name] = r.val]
    /\ UNCHANGED <<res, out, gpuCalls>>

UnameChoices == {None, Some(<<"6",".","1",".","0","-","1","3","-","a","m","d","6","4",NL>>)}
RunUptimeChoices == {None, Some(<<"9","0","0","0","0",".","5","5"," ","1","2","3","4","5",".","6","7",NL>>), Some(<<"-","5"," ","1","2","3","4","5",".","6","7",NL>>)}
RunPkgChoices ==
    { [dpkg |-> None, pacman |-> None, rpm |-> None],
      [dpkg |-> Some([stdout |-> <<>>, status |-> 1]),
       pacman |-> Some([stdout |-> <<"a",NL,"a",NL>>, status |-> 0]), rpm |-> None] }
RunGpuChoices ==
    { [lspci |-> None, nvidia_smi |-> None, lshw |-> None, modinfo |-> None,
       sys_modules |-> {}, glxinfo |-> None],
      [lspci |-> Some(<<"0","1",":","0","0",".","0"," ","V","G","A"," ","c","o","m","p","a","t","i","b","l","e"," ","c","o","n","t","r","o","l","l","e","r",":"," ","N","V","I","D","I","A"," ","C","o","r","p","o","r","a","t","i","o","n"," ","G","A","1","0","4",NL>>),
       nvidia_smi |-> Some([name |-> <<"N","V","I","D","I","A"," ","G","e","F","o","r","c","e"," ","R","T","X"," ","3","0","7","0",NL>>, driver |-> <<"5","3","5",".","5","4",NL>>]),
       lshw |-> None, modinfo |-> None, sys_modules |-> {}, glxinfo |-> None],
      [lspci |-> Some(<<"0","0",":","0","2",".","0"," ","D","i","s","p","l","a","y"," ","c","o","n","t","r","o","l","l","e","r",":"," ","I","n","t","e","l"," ","I","r","i","s"," ","X","e",NL>>),
       nvidia_smi |-> None, lshw |-> None, modinfo |-> None, sys_modules |-> {"i915"},
       glxinfo |-> Some(<<"O","p","e","n","G","L"," ","v","e","r","s","i","o","n"," ","s","t","r","i","n","g",":"," ","4",".","6"," ","M","e","s","a"," ","2","3",".","0",".","4",NL>>)] }
RunMeminfoChoices ==
    { None,
      Some(<<"M","e","m","T","o","t","a","l",":"," "," "," "," "," "," "," "," ","8","0","0","0","0","0","0"," ","k","B",NL,"M","e","m","A","v","a","i","l","a","b","l","e",":"," "," "," "," ","2","0","0","0","0","0","0"," ","k","B",NL>>),
      Some(<<"M","e","m","T","o","t","a","l",":"," "," "," "," "," "," "," "," ","1","0","0","0"," ","k","B",NL,"M","e","m","A","v","a","i","l","a","b","l","e",":"," "," "," "," ","2","0","0","0"," ","k","B",NL>>) }
WhoamiChoices == {None, Some(<<"r","o","o","t",NL>>)}

Hostname == Field("hostname", get_hostname(host.hostname), "get_hostname")
OsInfo == Field("os", get_os_info(host.os_release), "get_os_info")
KernelVersion ==
    \E c \in UnameChoices : Field("kernel", get_kernel_version(c), "get_kernel_version")
UptimeField == \E f \in RunUptimeChoices : Field("uptime", get_uptime(f), "get_uptime")
Shell == Field("shell", get_shell(host.SHELL), "get_shell")
Terminal == Field("terminal", get_terminal(host.TERM), "get_terminal")
Packages ==
    \E e \in RunPkgChoices : Field("packages", get_package_count(e), "get_package_count")
CpuInfo == Field("cpu", get_cpu_info(host.cpuinfo), "get_cpu_info")
Memory ==
    \E f \in RunMeminfoChoices :
        Field("memory", get_memory_info(f, build), "get_memory_info")

\* one evaluation of get_gpu_info() in a field initialiser
GpuCall(step, r) ==
    /\ At(step)
    /\ Proceed(r, "get_gpu_info")
    /\ info' = IF step = "gpu.0" THEN [info EXCEPT !.gpu = r.val[1]]
                                ELSE [info EXCEPT !.gpu_driver = r.val[2]]
    /\ gpuCalls' = Append(gpuCalls, r.val)
    /\ UNCHANGED <<res, out>>

\* gpu: get_gpu_info().0
GpuName == \E e \in RunGpuChoices : GpuCall("gpu.0", get_gpu_info(e))

\* gpu_driver: get_gpu_info().1
GpuDriver == \E e \in RunGpuChoices : GpuCall("gpu.1", get_gpu_info(e))

\* let logo = read_logo_file().unwrap_or_else(fallback)
Logo ==
    LET fs == [resources |-> host.resources, cwd |-> host.cwd]
    IN /\ At("logo")
       /\ Proceed([log |-> <<>>, abort |-> FALSE], "read_logo_file")
       /\ res' = [res EXCEPT !.logo = LoadLogo(fs)]
       /\ UNCHANGED <<info, out, gpuCalls>>

\* let info_lines = [...], whose first format! calls whoami()
UserStep(r) ==
    /\ At("info_lines")
    /\ Proceed(r, "whoami")
    /\ res' = IF r.abort THEN res
              ELSE [res EXCEPT !.info_lines = InfoLines(r.val, info)]
    /\ UNCHANGED <<info, out, gpuCalls>>

UserEnv(c) == [USER |-> host.USER, USERNAME |-> host.USERNAME, whoami |-> c]

BuildInfoLines == \E c \in WhoamiChoices : UserStep(whoami(UserEnv(c)))

Emit(event) ==
    /\ out' = Append(out, event)
    /\ UNCHANGED <<build, host, inp, res, info, cmds, gpuCalls>>

\* print!("\x1b[?25l")
PrintHide ==
    /\ At("print hide")
    /\ Emit([kind |-> "hide", text |-> HideCursor])
    /\ pc' = pc + 1 /\ UNCHANGED abortAt

\* let max_logo_len = logo.iter().map(|line| visible_length(line)).max().unwrap_or(0)
MaxLogoLen ==
    /\ At("max_logo_len")
    /\ res' = [res EXCEPT !.max_logo_len = max_logo_len(res.logo)]
    /\ pc' = pc + 1
    /\ UNCHANGED <<build, host, inp, info, out, cmds, abortAt, gpuCalls>>

\* one iteration of the for loop over i: r is the row, None when computing
\* it panicked;  println!("{}{}{}", logo_line, spaces, info_line)
RowStep(r) ==
    /\ At("rows")
    /\ res.i < RowCount(res.logo, res.info_lines)
    /\ IF r = None
       THEN /\ pc' = 0 /\ abortAt' = "display_info"
            /\ UNCHANGED <<build, host, inp, res, info, out, cmds, gpuCalls>>
       ELSE /\ out' = Append(out, [kind |-> "row", text |-> r[1]])
            /\ res' = [res EXCEPT !.i = res.i + 1]
            /\ UNCHANGED <<pc, build, host, inp, info, cmds, abortAt, gpuCalls>>

PrintRow == RowStep(Row(res.logo, res.info_lines, res.i, res.max_logo_len, build))

\* the for loop ends
RowsDone ==
    /\ At("rows")
    /\ res.i >= RowCount(res.logo, res.info_lines)
    /\ pc' = pc + 1
    /\ UNCHANGED <<build, host, inp, res, info, out, cmds, abortAt, gpuCalls>>

\* print!("\x1b[?25h")
PrintShow ==
    /\ At("print show")
    /\ Emit([kind |-> "show", text |-> ShowCursor])
    /\ pc' = pc + 1 /\ UNCHANGED abortAt

Next ==
    \/ Hostname \/ OsInfo \/ KernelVersion \/ UptimeField \/ Shell \/ Terminal
    \/ Packages \/ CpuInfo \/ GpuName \/ GpuDriver \/ Memory
    \/ Logo \/ BuildInfoLines \/ PrintHide \/ MaxLogoLen \/ PrintRow \/ RowsDone
    \/ PrintShow

Spec == Init /\ [][Next]_vars

\* the program is sequential: once the hide sequence is printed, each
\* statement that follows in display_info is executed when it can be
FairSpec ==
    /\ Spec
    /\ WF_vars(MaxLogoLen) /\ WF_vars(PrintRow) /\ WF_vars(RowsDone) /\ WF_vars(PrintShow)

(***************************************************************************)
(* Properties of a run                                                     *)
(***************************************************************************)
StepIndex(step) == CHOOSE i \in 1..Len(Steps) : Steps[i] = step

\* the step has been taken and the run went on
Past(step) == pc > StepIndex(step)

RowsPrinted == Cardinality({k \in 1..Len(out) : out[k].kind = "row"})
HideCount == Cardinality({k \in 1..Len(out) : out[k].kind = "hide"})
ShowCount == Cardinality({k \in 1..Len(out) : out[k].kind = "show"})
HideEmitted == HideCount > 0
ShowEmitted == ShowCount > 0

\* C1 as the specification states it: a run aborts only where `uname`
\* cannot be invoked in the kernel-version probe, or where `whoami` cannot
\* be invoked with USER and USERNAME unset; no content of /proc/uptime, of
\* /proc/meminfo or of a command's output makes a probe abort.
C1_AsStated ==
    Aborted =>
        \/ abortAt = "get_kernel_version"
        \/ abortAt = "whoami" /\ host.USER = None /\ host.USERNAME = None

\* once both GPU fields are set, they are the two components of the pair
\* that one invocation of get_gpu_info returned
GpuPairFromOneCall ==
    Past("gpu.1") =>
        \E k \in 1..Len(gpuCalls) : gpuCalls[k] = <<info.gpu, info.gpu_driver>>

\* C4 as the specification states it: the GPU probe and each command it
\* spawns run once per run, and the report's gpu and gpu_driver are the two
\* components of the pair that one invocation of the probe returned.
C4_AsStated ==
    /\ Len(gpuCalls) <= 1
    /\ Cardinality({k \in 1..Len(cmds) : cmds[k] = "lspci"}) <= 1
    /\ GpuPairFromOneCall

CursorOrder ==
    /\ HideCount <= 1 /\ ShowCount <= 1
    /\ out # <<>> => out[1].kind = "hide"
    /\ \A k \in 1..Len(out) : out[k].kind = "show" => k = Len(out) /\ Done
    /\ Done => /\ HideCount = 1 /\ ShowCount = 1
               /\ RowsPrinted = RowCount(res.logo, res.info_lines)
               /\ Len(out) = RowsPrinted + 2
    /\ Aborted => out = <<>>

=============================================================================
